---- MODULE Spec2Model ----
(***************************************************************************)
(* A model of the messenger Controller (src/src/Controller.ts): a manual-  *)
(* signalling WebRTC chat.  The controller owns a peer connection, the     *)
(* buffer of locally discovered ICE candidates, the active data channel    *)
(* and the textarea it writes to.  Offers and answers travel as            *)
(* btoa(JSON.stringify({session, iceCandidates})) strings the user copies  *)
(* between two browsers.                                                   *)
(*                                                                         *)
(* JavaScript runs every event handler to completion, and the promise      *)
(* continuations it releases run before the next event is delivered.  One  *)
(* action of this model is therefore one browser task together with the    *)
(* continuations it releases.                                              *)
(***************************************************************************)
EXTENDS Integers, Sequences, FiniteSets, TLC

(***************************************************************************)
(* Strings.  A JavaScript string is a sequence of UTF-16 code units; a     *)
(* code unit is written as a one-character TLA+ string when it is          *)
(* printable ASCII or a line feed, and as "U+<decimal code>" otherwise     *)
(* (the grave accent, which a TLA+ string cannot hold, is "U+96").         *)
(***************************************************************************)
Ascii ==
  << " ", "!", "\"", "#", "$", "%", "&", "'", "(", ")", "*", "+",
     ",", "-", ".", "/", "0", "1", "2", "3", "4", "5", "6", "7",
     "8", "9", ":", ";", "<", "=", ">", "?", "@", "A", "B", "C",
     "D", "E", "F", "G", "H", "I", "J", "K", "L", "M", "N", "O",
     "P", "Q", "R", "S", "T", "U", "V", "W", "X", "Y", "Z", "[",
     "\\", "]", "^", "_", "U+96", "a", "b", "c", "d", "e", "f", "g",
     "h", "i", "j", "k", "l", "m", "n", "o", "p", "q", "r", "s",
     "t", "u", "v", "w", "x", "y", "z", "{", "|", "}", "~" >>

\* The code units the model distinguishes: Latin-1 and the euro sign.
CodeUnits == (0 .. 255) \cup {8364}

CodeUnit(n) ==
  IF n = 10 THEN "\n"
  ELSE IF n >= 32 /\ n <= 126 THEN Ascii[n - 31]
  ELSE "U+" \o ToString(n)

CharCodeTable ==
  [c \in {CodeUnit(n) : n \in CodeUnits} |->
     CHOOSE n \in CodeUnits : CodeUnit(n) = c]

CharCode(c) == CharCodeTable[c]

\* Body(e), with e evaluated once however often Body uses it.
With(e, Body(_)) == CHOOSE r \in { Body(x) : x \in {e} } : TRUE

\* A function as a table of its values, each computed once.
Tabulated(f) == With(f, LAMBDA table : IF table = table THEN table ELSE table)

RECURSIVE Concat(_)
Concat(ss) == IF ss = <<>> THEN <<>> ELSE Head(ss) \o Concat(Tail(ss))

StartsWith(s, prefix) ==
  /\ Len(s) >= Len(prefix)
  /\ SubSeq(s, 1, Len(prefix)) = prefix

\* String.prototype.split(sep) for a one-code-unit separator.
RECURSIVE Split(_, _)
Split(s, sep) ==
  IF \A i \in 1 .. Len(s) : s[i] # sep THEN << s >>
  ELSE LET i == CHOOSE k \in 1 .. Len(s) :
                  /\ s[k] = sep
                  /\ \A j \in 1 .. (k - 1) : s[j] # sep
       IN  << SubSeq(s, 1, i - 1) >> \o Split(SubSeq(s, i + 1, Len(s)), sep)

\* Array.prototype.join(sep).
RECURSIVE Join(_, _)
Join(parts, sep) ==
  IF parts = <<>> THEN <<>>
  ELSE IF Len(parts) = 1 THEN parts[1]
  ELSE parts[1] \o << sep >> \o Join(Tail(parts), sep)

(***************************************************************************)
(* btoa and atob (forgiving base64, as the HTML standard defines them).    *)
(* Both return [ok, v]: ok = FALSE is the thrown InvalidCharacterError.    *)
(***************************************************************************)
Base64Alphabet ==
  << "A", "B", "C", "D", "E", "F", "G", "H", "I", "J", "K", "L", "M", "N", "O", "P",
     "Q", "R", "S", "T", "U", "V", "W", "X", "Y", "Z", "a", "b", "c", "d", "e", "f",
     "g", "h", "i", "j", "k", "l", "m", "n", "o", "p", "q", "r", "s", "t", "u", "v",
     "w", "x", "y", "z", "0", "1", "2", "3", "4", "5", "6", "7", "8", "9", "+", "/" >>

Base64Value(c) == (CHOOSE i \in 1 .. 64 : Base64Alphabet[i] = c) - 1

IsBase64Char(c) == \E i \in 1 .. 64 : Base64Alphabet[i] = c

Failure == [ok |-> FALSE, v |-> <<>>]

\* The base64 of a sequence of bytes: three bytes make four characters,
\* and the last group is padded with "=".
EncodeBytes(b) ==
  LET Byte(k) == IF k <= Len(b) THEN b[k] ELSE 0
      Char(k) ==
        LET g == 3 * ((k - 1) \div 4)
            pos == (k - 1) % 4
        IN  IF pos = 0 THEN Base64Alphabet[(Byte(g + 1) \div 4) + 1]
            ELSE IF pos = 1 THEN
              Base64Alphabet[((Byte(g + 1) % 4) * 16) + (Byte(g + 2) \div 16) + 1]
            ELSE IF pos = 2 THEN
              (IF g + 2 > Len(b) THEN "="
               ELSE Base64Alphabet[((Byte(g + 2) % 16) * 4) + (Byte(g + 3) \div 64) + 1])
            ELSE (IF g + 3 > Len(b) THEN "="
                  ELSE Base64Alphabet[(Byte(g + 3) % 64) + 1])
  IN  [k \in 1 .. (4 * ((Len(b) + 2) \div 3)) |-> Char(k)]

CharCodes(s) == [i \in 1 .. Len(s) |-> CharCode(s[i])]

btoa(s) ==
  With(CharCodes(s),
       LAMBDA b : IF \E i \in 1 .. Len(b) : b[i] > 255 THEN Failure
                  ELSE [ok |-> TRUE, v |-> EncodeBytes(b)])

IsAsciiWhitespace(c) == c \in {" ", "\n", CodeUnit(9), CodeUnit(12), CodeUnit(13)}

IsNotAsciiWhitespace(c) == ~IsAsciiWhitespace(c)

StripWhitespace(s) == SelectSeq(s, IsNotAsciiWhitespace)

StripPadding(s) ==
  IF Len(s) % 4 # 0 \/ Len(s) = 0 THEN s
  ELSE IF s[Len(s)] # "=" THEN s
  ELSE IF s[Len(s) - 1] = "=" THEN SubSeq(s, 1, Len(s) - 2)
  ELSE SubSeq(s, 1, Len(s) - 1)

\* The bytes of a sequence of six-bit values: four values make three
\* bytes, and the bits left over at the end are dropped.
DecodeSextets(x) ==
  LET Byte(k) ==
        LET g == 4 * ((k - 1) \div 3)
            pos == (k - 1) % 3
        IN  IF pos = 0 THEN (x[g + 1] * 4) + (x[g + 2] \div 16)
            ELSE IF pos = 1 THEN ((x[g + 2] % 16) * 16) + (x[g + 3] \div 4)
            ELSE ((x[g + 3] % 4) * 64) + x[g + 4]
  IN  [k \in 1 .. ((Len(x) * 3) \div 4) |-> CodeUnit(Byte(k))]

Base64Values(data) == [i \in 1 .. Len(data) |-> Base64Value(data[i])]

atob(s) ==
  With(StripPadding(StripWhitespace(s)),
       LAMBDA data :
         IF Len(data) % 4 = 1 THEN Failure
         ELSE IF \E i \in 1 .. Len(data) : ~IsBase64Char(data[i]) THEN Failure
         ELSE [ok |-> TRUE,
               v |-> With(Base64Values(data), LAMBDA x : DecodeSextets(x))])

(***************************************************************************)
(* JSON.  A JavaScript value is a record [t, s, n, xs]: t is its type, s   *)
(* the code units of a string (or the key of an object member), n a        *)
(* number, xs the elements of an array, the members of an object or the    *)
(* one value of a member.  Undefined is the value of an absent property.   *)
(* The model covers the JSON the payloads use: objects, arrays, strings    *)
(* with the escapes of quote, backslash and line feed, non-negative        *)
(* integers, null, true and false.                                         *)
(***************************************************************************)
JNull == [t |-> "null", s |-> <<>>, n |-> 0, xs |-> <<>>]
Undefined == [t |-> "undefined", s |-> <<>>, n |-> 0, xs |-> <<>>]
JBool(b) == [t |-> "boolean", s |-> <<>>, n |-> IF b THEN 1 ELSE 0, xs |-> <<>>]
JStr(str) == [t |-> "string", s |-> str, n |-> 0, xs |-> <<>>]
JNum(k) == [t |-> "number", s |-> <<>>, n |-> k, xs |-> <<>>]
JArr(elems) == [t |-> "array", s |-> <<>>, n |-> 0, xs |-> elems]
JMember(key, val) == [t |-> "member", s |-> key, n |-> 0, xs |-> << val >>]
JObj(members) == [t |-> "object", s |-> <<>>, n |-> 0, xs |-> members]

\* Property access obj[key]: the last member of that name, else undefined.
Get(obj, key) ==
  IF obj.t # "object" THEN Undefined
  ELSE LET hits == {i \in 1 .. Len(obj.xs) : obj.xs[i].s = key}
       IN  IF hits = {} THEN Undefined
           ELSE obj.xs[CHOOSE i \in hits : \A j \in hits : j <= i].xs[1]

Digits == << "0", "1", "2", "3", "4", "5", "6", "7", "8", "9" >>

IsDigit(c) == \E i \in 1 .. 10 : Digits[i] = c

DigitValue(c) == (CHOOSE i \in 1 .. 10 : Digits[i] = c) - 1

RECURSIVE NumberToString(_)
NumberToString(k) ==
  IF k < 10 THEN << Digits[k + 1] >>
  ELSE NumberToString(k \div 10) \o << Digits[(k % 10) + 1] >>

\* The k-th smallest element of a set of numbers.
Nth(set, k) == CHOOSE p \in set : Cardinality({q \in set : q < p}) = k - 1

\* QuoteJSONString without the surrounding quotes: quote, backslash and
\* line feed become two code units, any other code unit stays.
NeedsEscape(c) == c \in {"\"", "\\", "\n"}

EscapeJSON(str) ==
  LET \* where the code units of str[i] end in the result
      End(i) == i + Cardinality({j \in 1 .. i : NeedsEscape(str[j])})
      Source(k) == CHOOSE i \in 1 .. Len(str) : End(i) >= k /\ (i = 1 \/ End(i - 1) < k)
      Out(k) ==
        LET i == Source(k)
        IN  IF ~NeedsEscape(str[i]) THEN str[i]
            ELSE IF k < End(i) THEN "\\"
            ELSE IF str[i] = "\n" THEN "n"
            ELSE str[i]
  IN  [k \in 1 .. (IF str = <<>> THEN 0 ELSE End(Len(str))) |-> Out(k)]

RECURSIVE JSONstringify(_)
RECURSIVE StringifyList(_)
JSONstringify(val) ==
  IF val.t = "null" THEN << "n", "u", "l", "l" >>
  ELSE IF val.t = "boolean" THEN
    (IF val.n = 1 THEN << "t", "r", "u", "e" >> ELSE << "f", "a", "l", "s", "e" >>)
  ELSE IF val.t = "number" THEN NumberToString(val.n)
  ELSE IF val.t = "string" THEN << "\"" >> \o EscapeJSON(val.s) \o << "\"" >>
  ELSE IF val.t = "member" THEN
    << "\"" >> \o EscapeJSON(val.s) \o << "\"", ":" >> \o JSONstringify(val.xs[1])
  ELSE IF val.t = "array" THEN << "[" >> \o StringifyList(val.xs) \o << "]" >>
  ELSE << "{" >> \o StringifyList(val.xs) \o << "}" >>

StringifyList(vals) ==
  IF vals = <<>> THEN <<>>
  ELSE IF Len(vals) = 1 THEN JSONstringify(vals[1])
  ELSE JSONstringify(vals[1]) \o << "," >> \o StringifyList(Tail(vals))

(***************************************************************************)
(* JSON.parse.  The text is scanned once for its unescaped quotes and its  *)
(* brackets outside strings; a value is then read from the span of the     *)
(* text it occupies.  A result is [ok, v]: ok = FALSE is the thrown        *)
(* SyntaxError.                                                            *)
(***************************************************************************)
SyntaxError == [ok |-> FALSE, v |-> Undefined]

IsJSONWhitespace(c) == c \in {" ", "\n", CodeUnit(9), CodeUnit(13)}

\* A code unit is escaped when an odd run of backslashes precedes it.
IsEscaped(str, k) ==
  LET before == CHOOSE m \in 0 .. (k - 1) :
                  /\ m = 0 \/ str[m] # "\\"
                  /\ \A j \in (m + 1) .. (k - 1) : str[j] = "\\"
  IN  (k - 1 - before) % 2 = 1

Scan(str) ==
  With({k \in 1 .. Len(str) : str[k] = "\"" /\ ~IsEscaped(str, k)},
       LAMBDA quotes :
         LET InString(k) == Cardinality({q \in quotes : q < k}) % 2 = 1
         IN  [quotes |-> quotes,
              opens |-> {k \in 1 .. Len(str) : str[k] \in {"{", "["} /\ ~InString(k)},
              closes |-> {k \in 1 .. Len(str) : str[k] \in {"}", "]"} /\ ~InString(k)},
              marks |-> {k \in 1 .. Len(str) : str[k] \in {",", ":"} /\ ~InString(k)}])

\* The number of brackets open around position k.
Depth(scan, k) ==
  Cardinality({o \in scan.opens : o < k}) - Cardinality({c \in scan.closes : c < k})

\* The string between the quotes at a and b.
ParseString(str, scan, a, b) ==
  LET \* the backslashes that start an escape, and the code units kept
      starts == {k \in (a + 1) .. (b - 1) : str[k] = "\\" /\ ~IsEscaped(str, k)}
      kept == ((a + 1) .. (b - 1)) \ starts
      Unescaped(k) ==
        IF (k - 1) \notin starts THEN str[k]
        ELSE IF str[k] = "n" THEN "\n"
        ELSE str[k]
  IN  IF \/ a >= b
         \/ {a, b} \cap scan.quotes # {a, b}
         \/ \E q \in scan.quotes : a < q /\ q < b
         \/ \E k \in kept :
              IF (k - 1) \in starts THEN str[k] \notin {"\"", "\\", "/", "n"}
              ELSE CharCode(str[k]) < 32
      THEN SyntaxError
      ELSE [ok |-> TRUE, v |-> JStr([r \in 1 .. Cardinality(kept) |-> Unescaped(Nth(kept, r))])]

RECURSIVE NumberValue(_, _, _)
NumberValue(str, a, b) ==
  IF b < a THEN 0 ELSE (NumberValue(str, a, b - 1) * 10) + DigitValue(str[b])

ParseNumber(str, a, b) ==
  IF (\A k \in a .. b : IsDigit(str[k])) /\ (a = b \/ str[a] # "0")
  THEN [ok |-> TRUE, v |-> JNum(NumberValue(str, a, b))]
  ELSE SyntaxError

ParseLiteral(str, a, b, word, val) ==
  IF SubSeq(str, a, b) = word THEN [ok |-> TRUE, v |-> val] ELSE SyntaxError

RECURSIVE ParseSpan(_, _, _, _)

\* The n-th part of the bracket at a .. b, its parts divided by cuts.
Part(a, b, cuts, n) ==
  [from |-> IF n = 1 THEN a + 1 ELSE Nth(cuts, n - 1) + 1,
   to |-> IF n = Cardinality(cuts) + 1 THEN b - 1 ELSE Nth(cuts, n) - 1]

ParseMember(str, scan, from, to, depth) ==
  LET colons == {k \in scan.marks : from <= k /\ k <= to /\ str[k] = ":"
                                     /\ Depth(scan, k) = depth}
  IN  IF colons = {} THEN SyntaxError
      ELSE With(Nth(colons, 1),
                LAMBDA colon :
                  With(<< ParseSpan(str, scan, from, colon - 1),
                          ParseSpan(str, scan, colon + 1, to) >>,
                       LAMBDA kv :
                         IF kv[1].ok /\ kv[1].v.t = "string" /\ kv[2].ok
                         THEN [ok |-> TRUE, v |-> JMember(kv[1].v.s, kv[2].v)]
                         ELSE SyntaxError))

\* The array or object whose brackets are at a and b.
ParseBracket(str, scan, a, b) ==
  LET depth == Depth(scan, a) + 1
      cuts == {k \in scan.marks : a < k /\ k < b /\ str[k] = ","
                                   /\ Depth(scan, k) = depth}
      Parsed(n) ==
        IF str[a] = "["
        THEN ParseSpan(str, scan, Part(a, b, cuts, n).from, Part(a, b, cuts, n).to)
        ELSE ParseMember(str, scan, Part(a, b, cuts, n).from, Part(a, b, cuts, n).to,
                         depth)
  IN  IF \/ str[b] # (IF str[a] = "[" THEN "]" ELSE "}")
         \/ b \notin scan.closes
         \/ Depth(scan, b) # depth
         \/ \E c \in scan.closes : a < c /\ c < b /\ Depth(scan, c) <= depth
      THEN SyntaxError
      ELSE IF \A k \in (a + 1) .. (b - 1) : IsJSONWhitespace(str[k])
      THEN [ok |-> TRUE, v |-> IF str[a] = "[" THEN JArr(<<>>) ELSE JObj(<<>>)]
      ELSE With([n \in 1 .. (Cardinality(cuts) + 1) |-> Parsed(n)] \o <<>>,
                LAMBDA parts :
                  IF \E n \in 1 .. Len(parts) : ~parts[n].ok THEN SyntaxError
                  ELSE [ok |-> TRUE,
                        v |-> IF str[a] = "["
                              THEN JArr([n \in 1 .. Len(parts) |-> parts[n].v])
                              ELSE JObj([n \in 1 .. Len(parts) |-> parts[n].v])])

\* The value between its first and its last code unit, a and b.
ParseTrimmed(str, scan, a, b) ==
  IF str[a] = "\"" THEN ParseString(str, scan, a, b)
  ELSE IF IsDigit(str[a]) THEN ParseNumber(str, a, b)
  ELSE IF str[a] = "n" THEN ParseLiteral(str, a, b, << "n", "u", "l", "l" >>, JNull)
  ELSE IF str[a] = "t" THEN ParseLiteral(str, a, b, << "t", "r", "u", "e" >>, JBool(TRUE))
  ELSE IF str[a] = "f"
  THEN ParseLiteral(str, a, b, << "f", "a", "l", "s", "e" >>, JBool(FALSE))
  ELSE IF str[a] \in {"[", "{"} /\ a \in scan.opens /\ a < b
  THEN ParseBracket(str, scan, a, b)
  ELSE SyntaxError

\* The value in the span from .. to, whitespace around it allowed.
ParseSpan(str, scan, from, to) ==
  LET IsFirst(k) == ~IsJSONWhitespace(str[k])
                      /\ \A j \in from .. (k - 1) : IsJSONWhitespace(str[j])
      IsLast(k) == ~IsJSONWhitespace(str[k])
                     /\ \A j \in (k + 1) .. to : IsJSONWhitespace(str[j])
  IN  IF \A k \in from .. to : IsJSONWhitespace(str[k]) THEN SyntaxError
      ELSE With(<< CHOOSE k \in from .. to : IsFirst(k),
                   CHOOSE k \in from .. to : IsLast(k) >>,
                LAMBDA ends : ParseTrimmed(str, scan, ends[1], ends[2]))

JSONparse(str) == With(Scan(str), LAMBDA scan : ParseSpan(str, scan, 1, Len(str)))

(***************************************************************************)
(* The words of the program and of its wire format, as code units.         *)
(***************************************************************************)
STR_type == << "t", "y", "p", "e" >>
STR_sdp == << "s", "d", "p" >>
STR_offer == << "o", "f", "f", "e", "r" >>
STR_answer == << "a", "n", "s", "w", "e", "r" >>
STR_pranswer == << "p", "r", "a", "n", "s", "w", "e", "r" >>
STR_rollback == << "r", "o", "l", "l", "b", "a", "c", "k" >>
STR_session == << "s", "e", "s", "s", "i", "o", "n" >>
STR_iceCandidates == << "i", "c", "e", "C", "a", "n", "d", "i", "d", "a", "t", "e", "s" >>
STR_candidate == << "c", "a", "n", "d", "i", "d", "a", "t", "e" >>
STR_sdpMid == << "s", "d", "p", "M", "i", "d" >>
STR_sdpMLineIndex == << "s", "d", "p", "M", "L", "i", "n", "e", "I", "n", "d", "e", "x" >>
STR_usernameFragment == << "u", "s", "e", "r", "n", "a", "m", "e", "F", "r", "a", "g", "m", "e", "n", "t" >>
STR_host == << "h", "o", "s", "t" >>
STR_join == << "j", "o", "i", "n" >>
STR_undefined == << "u", "n", "d", "e", "f", "i", "n", "e", "d" >>
STR_null == << "n", "u", "l", "l" >>
STR_true == << "t", "r", "u", "e" >>
STR_false == << "f", "a", "l", "s", "e" >>
STR_object == << "[", "o", "b", "j", "e", "c", "t", " ", "O", "b", "j", "e", "c", "t", "]" >>
MSG_joining == << "j", "o", "i", "n", "i", "n", "g", ":", " " >>
MSG_Finished == << "F", "i", "n", "i", "s", "h", "e", "d", " ", "s", "e", "s", "s", "i", "o", "n", " ", "s", "e", "t", "u", "p", "!" >>
MSG_Answer == << "A", "n", "s", "w", "e", "r", ":", " " >>
MSG_Offer == << "O", "f", "f", "e", "r", ":", " " >>
MSG_InvalidCommand == << "I", "n", "v", "a", "l", "i", "d", " ", "C", "o", "m", "m", "a", "n", "d", ":", " " >>

(***************************************************************************)
(* Session descriptions and candidates, in the shape JSON.stringify sees:  *)
(* an RTCSessionDescriptionInit {type, sdp} and the toJSON() of an         *)
(* RTCIceCandidate.                                                        *)
(***************************************************************************)
SessionDescription(type, sdp) ==
  JObj(<< JMember(STR_type, JStr(type)), JMember(STR_sdp, JStr(sdp)) >>)

IceCandidate(candidate, sdpMid, sdpMLineIndex) ==
  JObj(<< JMember(STR_candidate, JStr(candidate)),
          JMember(STR_sdpMid, JStr(sdpMid)),
          JMember(STR_sdpMLineIndex, JNum(sdpMLineIndex)),
          JMember(STR_usernameFragment, JNull) >>)

\* The object createSessionPayload hands to JSON.stringify.
SessionPayload(session, candidates) ==
  JObj(<< JMember(STR_session, session),
          JMember(STR_iceCandidates, JArr(candidates)) >>)

(***************************************************************************)
(* Bounds of the model, and what the environment may deliver: the lines    *)
(* the user submits, what the WebRTC engine answers and discovers, and the *)
(* channels and messages of the remote peer.                               *)
(***************************************************************************)
MaxLines == 2
MaxGatherings == 2
MaxCandidateEvents == 2
MaxMessages == 1

\* Descriptions createOffer and createAnswer may resolve with.
LocalSdps == { << "v", "=", "0", "\n" >>, << "s", "=", "U+8364" >> }

LocalCandidates ==
  { IceCandidate(<< "a", " ", "1", " ", "u", "d", "p" >>, << "0" >>, 0),
    IceCandidate(<< "b", " ", "2", " ", "t", "c", "p" >>, << "1" >>, 1) }

\* What the other peer exported: an offer with one candidate and an answer
\* with two.
RemoteCandidates ==
  << IceCandidate(<< "r", " ", "1", " ", "u", "d", "p" >>, << "0" >>, 0),
     IceCandidate(<< "r", " ", "2", " ", "u", "d", "p" >>, << "0" >>, 0) >>

RemoteOffer ==
  btoa(JSONstringify(SessionPayload(SessionDescription(STR_offer, << "v", "=", "0", "\n", "o", "=", "\"", "r", "\"" >>),
                                    SubSeq(RemoteCandidates, 1, 1)))).v

RemoteAnswer ==
  btoa(JSONstringify(SessionPayload(SessionDescription(STR_answer, << "v", "=", "0", "\n" >>),
                                    RemoteCandidates))).v

SubmittedLines ==
  { <<>>,
    << "h", "e", "l", "l", "o" >>,
    << "/", "h", "o", "s", "t" >>,
    << "/", "b", "o", "g", "u", "s" >>,
    << "/", "j", "o", "i", "n" >>,
    << "/", "j", "o", "i", "n", " ", "A", "B", "C", "1", "2", "3" >>,
    << "/", "j", "o", "i", "n", " ", "!", " ", " ", "x" >>,
    << "/", "j", "o", "i", "n", " " >> \o RemoteOffer,
    << "/", "j", "o", "i", "n", " " >> \o RemoteAnswer }

\* The strings of at most n characters and the sequences of at most n
\* elements.
RECURSIVE StringsUpTo(_, _)
StringsUpTo(alphabet, n) ==
  IF n = 0 THEN { <<>> }
  ELSE StringsUpTo(alphabet, n - 1)
       \cup { Append(str, c) : str \in StringsUpTo(alphabet, n - 1), c \in alphabet }

RECURSIVE SequencesUpTo(_, _)
SequencesUpTo(elements, n) ==
  IF n = 0 THEN { <<>> }
  ELSE SequencesUpTo(elements, n - 1)
       \cup { Append(q, e) : q \in SequencesUpTo(elements, n - 1), e \in elements }

RemoteChannels == {"remote1", "remote2"}
Channels == {"messages"} \cup RemoteChannels
MessageData == { << "h", "i" >> }

(***************************************************************************)
(* The state.  One flow is one call of the async hostSession or            *)
(* joinSession, started by the submitted line number line: pc is the await *)
(* it is suspended at ("done" once it has returned, "rejected" once it has *)
(* thrown error), calls the peer-connection calls it has issued, shown the *)
(* lines it has displayed, waits how often it has suspended in waitFor,    *)
(* packState and snapshot the gathering state and the buffer at the moment *)
(* it packaged, failed the candidates whose addIceCandidate has rejected.  *)
(***************************************************************************)
VARIABLES
  iceGatheringState,   \* peerConnection.iceGatheringState
  localDescription,    \* peerConnection.localDescription
  remoteDescription,   \* peerConnection.remoteDescription
  remoteCandidates,    \* the candidates addIceCandidate has applied
  iceCandidates,       \* Controller.iceCandidates
  dataChannel,         \* Controller.dataChannel
  messageListeners,    \* the channels handleMessage is subscribed to
  messenger,           \* $messenger.value, as the messages appended to it
  sent,                \* the calls of dataChannel.send: line, channel, data
  flows,               \* the calls of hostSession and joinSession
  waiters,             \* flows suspended in waitFor, in subscription order
  formerChannels,      \* the channels a datachannel event has replaced
  delivered,           \* the message events delivered so far
  lines,               \* the lines submitted so far
  gatherings,          \* how often candidate gathering has started
  candidateEvents,     \* the candidates of the icecandidate events so far
  codec                \* one payload taken through encoding and decoding

vars ==
  << iceGatheringState, localDescription, remoteDescription, remoteCandidates,
     iceCandidates, dataChannel, messageListeners, messenger, sent, flows,
     waiters, formerChannels, delivered, lines, gatherings, candidateEvents,
     codec >>

peerVars ==
  << iceGatheringState, localDescription, remoteDescription, remoteCandidates,
     gatherings >>

channelVars == << dataChannel, messageListeners, sent, delivered >>

Call(op, arg) == [op |-> op, arg |-> arg]

NewFlow(kind, response) ==
  [kind |-> kind, response |-> response, line |-> 0, pc |-> "start",
   session |-> Undefined, candidates |-> Undefined, pending |-> {},
   local |-> Undefined, calls |-> <<>>, shown |-> <<>>, error |-> "none",
   waits |-> 0, packState |-> "none", snapshot |-> <<>>, failed |-> {}]

\* The lines a step of a flow has added to its display.
NewlyShown(before, after) ==
  SubSeq(after.shown, Len(before.shown) + 1, Len(after.shown))

IceRestart == JObj(<< JMember(<< "i", "c", "e", "R", "e", "s", "t", "a", "r", "t" >>, JBool(TRUE)) >>)

\* The controller after its constructor.
Constructed ==
  /\ iceGatheringState = "new"
  /\ localDescription = Undefined
  /\ remoteDescription = Undefined
  /\ remoteCandidates = {}
  /\ iceCandidates = <<>>
  /\ dataChannel = "messages"
  /\ messageListeners = {"messages"}
  /\ messenger = <<>>
  /\ sent = <<>>
  /\ flows = <<>>
  /\ waiters = <<>>
  /\ formerChannels = {}
  /\ delivered = <<>>
  /\ lines = <<>>
  /\ gatherings = 0
  /\ candidateEvents = <<>>

NoResult == [ok |-> FALSE, v |-> << "none" >>]

Init ==
  /\ Constructed
  /\ codec = [session |-> Undefined, candidates |-> <<>>, step |-> "idle",
              payload |-> NoResult, parsed |-> Undefined]

(***************************************************************************)
(* The controller's functions.                                             *)
(***************************************************************************)
\* `${value}`: the string a template literal makes of a value.
RECURSIVE ToDisplayString(_)
RECURSIVE JoinDisplayed(_)
ToDisplayString(val) ==
  IF val.t = "string" THEN val.s
  ELSE IF val.t = "undefined" THEN STR_undefined
  ELSE IF val.t = "null" THEN STR_null
  ELSE IF val.t = "number" THEN NumberToString(val.n)
  ELSE IF val.t = "boolean" THEN (IF val.n = 1 THEN STR_true ELSE STR_false)
  ELSE IF val.t = "array" THEN JoinDisplayed(val.xs)
  ELSE STR_object

JoinDisplayed(vals) ==
  IF vals = <<>> THEN <<>>
  ELSE LET first == IF vals[1].t \in {"null", "undefined"} THEN <<>>
                    ELSE ToDisplayString(vals[1])
       IN  IF Len(vals) = 1 THEN first
           ELSE first \o << "," >> \o JoinDisplayed(Tail(vals))

\* The encoding createSessionPayload returns once gathering is complete.
createSessionPayload(session, candidates) ==
  With(JSONstringify(SessionPayload(session, candidates)), LAMBDA json : btoa(json))

\* [ok, v, error]: the decoded payload, or the exception thrown.
parseSessionPayload(payload) ==
  With(atob(payload),
       LAMBDA decoded :
         IF ~decoded.ok
         THEN [ok |-> FALSE, v |-> Undefined, error |-> "InvalidCharacterError"]
         ELSE With(JSONparse(decoded.v),
                   LAMBDA parsed :
                     IF ~parsed.ok
                     THEN [ok |-> FALSE, v |-> Undefined, error |-> "SyntaxError"]
                     ELSE [ok |-> TRUE, v |-> parsed.v, error |-> "none"]))

\* createSessionPayload of every local description createOffer and
\* createAnswer may resolve with and every content of the candidate buffer.
LocalDescriptions ==
  { SessionDescription(type, sdp) : type \in {STR_offer, STR_answer}, sdp \in LocalSdps }

CandidateBuffers == SequencesUpTo(LocalCandidates, MaxCandidateEvents)

SessionPayloads ==
  Tabulated([p \in LocalDescriptions \X CandidateBuffers |->
               createSessionPayload(p[1], p[2])])

\* A loop that waits only until gathering has started.
waitWhileNew(state) ==
  IF state = "new" THEN "suspend" ELSE "return"

\* One evaluation of the loop condition of waitForIceCandidates: the flow
\* suspends on the next icegatheringstatechange event, or the loop ends.
waitForIceCandidates(state) ==
  IF state # "complete" THEN "suspend" ELSE "return"

Throw(f, error) == [f EXCEPT !.pc = "rejected", !.error = error]

\* A flow that issues a rejected call once more before it gives up.
RetriesOnce(f) ==
  IF Cardinality({ k \in DOMAIN f.calls : f.calls[k] = f.calls[Len(f.calls)] }) < 2
  THEN [f EXCEPT !.calls = Append(@, f.calls[Len(f.calls)])]
  ELSE Throw(f, "OperationError")

\* An awaited call of the peer connection rejects: the await throws and
\* nothing in hostSession or joinSession catches it.
CallRejected(f) == Throw(f, "OperationError")

\* new RTCSessionDescription(init): type is required and must be an
\* RTCSdpType, sdp defaults to the empty string.
IsSdpType(val) ==
  /\ val.t = "string"
  /\ val.s \in {STR_offer, STR_pranswer, STR_answer, STR_rollback}

RTCSessionDescription(init) ==
  SessionDescription(Get(init, STR_type).s,
                     IF Get(init, STR_sdp).t = "undefined" THEN <<>>
                     ELSE ToDisplayString(Get(init, STR_sdp)))

\* Every payload displayed as an offer.
OfferLabel(f) == MSG_Offer

\* The label of the payload a flow displays.
PayloadLabel(f) == IF f.kind = "host" THEN MSG_Offer ELSE MSG_Answer

\* A payload of the buffer as it was when createSessionPayload was called,
\* not as it is when the wait is over.
PacksBufferAtCall(f, state, buffer) ==
  IF state # "complete"
  THEN [f EXCEPT !.pc = "waiting", !.waits = @ + 1,
                 !.snapshot = IF f.waits = 0 THEN buffer ELSE @]
  ELSE With(IF f.waits = 0 THEN buffer ELSE f.snapshot,
            LAMBDA read :
              IF ~SessionPayloads[<< f.local, read >>].ok
              THEN [Throw(f, "InvalidCharacterError") EXCEPT !.packState = state,
                                                             !.snapshot = read]
              ELSE [f EXCEPT !.pc = "done",
                             !.shown = Append(@, PayloadLabel(f) \o
                                                SessionPayloads[<< f.local, read >>].v),
                             !.packState = state,
                             !.snapshot = read])

\* A wait for one notification only: an if where the loop is.
AwaitsOnce(f, state, buffer) ==
  IF f.waits = 0 /\ state # "complete"
  THEN [f EXCEPT !.pc = "waiting", !.waits = @ + 1]
  ELSE With(SessionPayloads[<< f.local, buffer >>],
            LAMBDA payload :
              IF ~payload.ok
              THEN [Throw(f, "InvalidCharacterError") EXCEPT !.packState = state,
                                                             !.snapshot = buffer]
              ELSE [f EXCEPT !.pc = "done",
                             !.shown = Append(@, PayloadLabel(f) \o payload.v),
                             !.packState = state,
                             !.snapshot = buffer])

\* The rest of a flow from its call of createSessionPayload on, run with
\* the gathering state and the candidate buffer of the moment: suspended
\* in waitFor, or packaged and displayed.
AwaitPayload(f, state, buffer) ==
  IF waitForIceCandidates(state) = "suspend"
  THEN [f EXCEPT !.pc = "waiting", !.waits = @ + 1]
  ELSE With(SessionPayloads[<< f.local, buffer >>],
            LAMBDA payload :
              IF ~payload.ok
              THEN [Throw(f, "InvalidCharacterError") EXCEPT !.packState = state,
                                                             !.snapshot = buffer]
              ELSE [f EXCEPT !.pc = "done",
                             !.shown = Append(@, PayloadLabel(f) \o payload.v),
                             !.packState = state,
                             !.snapshot = buffer])

\* A join that answers whatever the type of the session it was given.
AnswersEverySession(f) ==
  [f EXCEPT !.pc = "createAnswer",
            !.calls = Append(@, Call("createAnswer", IceRestart))]

\* joinSession after addIceCandidates has resolved.
AfterCandidates(f) ==
  IF Get(f.session, STR_type) = JStr(STR_answer)
  THEN [f EXCEPT !.pc = "done", !.shown = Append(@, MSG_Finished)]
  ELSE [f EXCEPT !.pc = "createAnswer",
                 !.calls = Append(@, Call("createAnswer", IceRestart))]

\* addIceCandidates without its await: the calls are issued and the flow
\* goes on at once.
AppliesWithoutAwaiting(f) ==
  IF f.candidates.t # "array" THEN Throw(f, "TypeError")
  ELSE AfterCandidates(
         [f EXCEPT !.pending = 1 .. Len(f.candidates.xs),
                   !.calls = @ \o [k \in 1 .. Len(f.candidates.xs) |->
                                     Call("addIceCandidate", f.candidates.xs[k])]])

\* addIceCandidates: one addIceCandidate call per candidate, all issued
\* before any settles; Promise.all of no promise resolves at once.
addIceCandidates(f) ==
  IF f.candidates.t # "array" THEN Throw(f, "TypeError")
  ELSE LET n == Len(f.candidates.xs)
           issued ==
             [f EXCEPT !.pc = "addIceCandidate",
                       !.pending = 1 .. n,
                       !.calls = @ \o [k \in 1 .. n |->
                                         Call("addIceCandidate", f.candidates.xs[k])]]
       IN  IF n = 0 THEN AfterCandidates(issued) ELSE issued

\* A joint wait that goes on once every call has settled, rejected or not.
AwaitsAllSettled(f, k) ==
  LET settled == [f EXCEPT !.pending = @ \ {k}, !.failed = @ \cup {k}]
  IN  IF settled.pc = "addIceCandidate" /\ settled.pending = {}
      THEN AfterCandidates(settled) ELSE settled

\* The addIceCandidate call of candidate k rejects: Promise.all rejects at
\* the first rejection and the await in addIceCandidates throws; a later
\* rejection finds the flow ended already.
CandidateRejected(f, k) ==
  LET failed == [f EXCEPT !.pending = @ \ {k}, !.failed = @ \cup {k}]
  IN  IF failed.pc = "addIceCandidate" THEN Throw(failed, "OperationError")
      ELSE failed

\* joinSession up to its first await.
Joining(f, parsed) ==
  LET session == Get(parsed.v, STR_session)
      joining ==
        [f EXCEPT !.session = session,
                  !.candidates = Get(parsed.v, STR_iceCandidates),
                  !.shown = << MSG_joining \o ToDisplayString(Get(session, STR_sdp)) >>]
  IN  IF ~parsed.ok THEN Throw(f, parsed.error)
      ELSE IF parsed.v.t = "null" \/ session.t \in {"undefined", "null"}
      THEN Throw(f, "TypeError")
      ELSE IF session.t # "object" \/ ~IsSdpType(Get(session, STR_type))
      THEN Throw(joining, "TypeError")
      ELSE [joining EXCEPT
              !.pc = "setRemoteDescription",
              !.calls = << Call("setRemoteDescription", RTCSessionDescription(session)) >>]

\* A join that announces itself before it decodes the payload.
AnnouncesBeforeDecoding(response) ==
  With(parseSessionPayload(response),
       LAMBDA parsed :
         IF parsed.ok THEN Joining(NewFlow("join", response), parsed)
         ELSE [Throw(NewFlow("join", response), parsed.error) EXCEPT
                 !.shown = << MSG_joining >>])

joinSession(response) ==
  With(parseSessionPayload(response),
       LAMBDA parsed : Joining(NewFlow("join", response), parsed))

\* hostSession up to its first await.
hostSession ==
  [NewFlow("host", <<>>) EXCEPT !.pc = "createOffer",
                                !.calls = << Call("createOffer", IceRestart) >>]

\* handleCommand: the command token and the argument joinSession gets.
CommandArgs(value) == Split(SubSeq(value, 2, Len(value)), " ")

CommandToken(value) == Head(CommandArgs(value))

\* Only the first word after the command token.
FirstArgument(value) ==
  IF Tail(CommandArgs(value)) = <<>> THEN <<>> ELSE Head(Tail(CommandArgs(value)))

JoinArgument(value) == Join(Tail(CommandArgs(value)), " ")

\* A dispatcher whose notice names the whole line, not the token.
ReportsWholeLine(value) ==
  IF CommandToken(value) = STR_host
  THEN [do |-> "flow", flow |-> hostSession, text |-> <<>>]
  ELSE IF CommandToken(value) = STR_join
  THEN [do |-> "flow", flow |-> joinSession(JoinArgument(value)), text |-> <<>>]
  ELSE [do |-> "show", flow |-> NewFlow("none", <<>>),
        text |-> MSG_InvalidCommand \o value]

\* What handleInput does with a line: nothing, a flow to start, a notice
\* to display or a message to send.
handleCommand(value) ==
  IF CommandToken(value) = STR_host
  THEN [do |-> "flow", flow |-> hostSession, text |-> <<>>]
  ELSE IF CommandToken(value) = STR_join
  THEN [do |-> "flow", flow |-> joinSession(JoinArgument(value)), text |-> <<>>]
  ELSE [do |-> "show", flow |-> NewFlow("none", <<>>),
        text |-> MSG_InvalidCommand \o CommandToken(value)]

handleInput(value) ==
  IF value = <<>> THEN [do |-> "nothing", flow |-> NewFlow("none", <<>>), text |-> <<>>]
  ELSE IF StartsWith(value, << "/" >>) THEN handleCommand(value)
  ELSE [do |-> "send", flow |-> NewFlow("none", <<>>), text |-> value]

\* A send that stays on the channel the constructor created.
SendsOnCreatedChannel(value, channel) == [channel |-> "messages", data |-> value]

\* sendMessage: one send on the active channel.
sendMessage(value, channel) == [channel |-> channel, data |-> value]

\* A handler that empties the buffer at the end-of-candidates event.
ClearsAtEndOfCandidates(buffer, candidate) ==
  IF candidate # JNull THEN Append(buffer, candidate) ELSE <<>>

\* handleIceCandidate: a candidate is buffered, the null candidate is not.
handleIceCandidate(buffer, candidate) ==
  IF candidate # JNull THEN Append(buffer, candidate) ELSE buffer

\* A handler that subscribes to the new channel and keeps sending on the
\* one the constructor created.
KeepsCreatedChannel(current, channel) == current

\* handleDataChannel: the active channel afterwards.
ActiveChannel(current, channel) == channel

\* A handover that leaves the subscription on the new channel only.
MovesSubscription(listeners, channel) == {channel}

\* handleDataChannel: the channels handleMessage is subscribed to afterwards.
handleDataChannel(listeners, channel) == listeners \cup {channel}

\* handleInput of every line the user may submit.
InputEffect == Tabulated([value \in SubmittedLines |-> handleInput(value)])

(***************************************************************************)
(* The tasks.                                                              *)
(***************************************************************************)
\* The user presses Enter on a line: handleKeyPress, handleInput.
SubmitLine(value) ==
  /\ Len(lines) < MaxLines
  /\ lines' = Append(lines, value)
  /\ \E r \in {InputEffect[value]} :
       LET started == [r.flow EXCEPT !.line = Len(lines) + 1]
       IN
         /\ flows' = IF r.do = "flow" THEN Append(flows, started) ELSE flows
         /\ messenger' = IF r.do = "flow" THEN messenger \o r.flow.shown
                         ELSE IF r.do = "show" THEN Append(messenger, r.text)
                         ELSE messenger
         /\ sent' = IF r.do = "send"
                    THEN Append(sent, [line |-> Len(lines) + 1,
                                       channel |-> sendMessage(r.text, dataChannel).channel,
                                       data |-> sendMessage(r.text, dataChannel).data])
                    ELSE sent
  /\ UNCHANGED << codec, peerVars, iceCandidates, dataChannel, messageListeners,
                  formerChannels, waiters, delivered, candidateEvents >>

\* createOffer resolves with an offer: hostSession sets it as the local
\* description.
ResolveCreateOffer(i, sdp) ==
  /\ flows[i].pc = "createOffer"
  /\ LET offer == SessionDescription(STR_offer, sdp)
     IN  flows' = [flows EXCEPT ![i] =
                     [@ EXCEPT !.pc = "setLocalDescription",
                               !.local = offer,
                               !.calls = Append(@, Call("setLocalDescription", offer))]]
  /\ UNCHANGED << codec, peerVars, iceCandidates, channelVars, formerChannels, messenger,
                  waiters, lines, candidateEvents >>

\* createAnswer resolves with an answer: joinSession sets it as the local
\* description.
ResolveCreateAnswer(i, sdp) ==
  /\ flows[i].pc = "createAnswer"
  /\ LET answer == SessionDescription(STR_answer, sdp)
     IN  flows' = [flows EXCEPT ![i] =
                     [@ EXCEPT !.pc = "setLocalDescription",
                               !.local = answer,
                               !.calls = Append(@, Call("setLocalDescription", answer))]]
  /\ UNCHANGED << codec, peerVars, iceCandidates, channelVars, formerChannels, messenger,
                  waiters, lines, candidateEvents >>

\* setLocalDescription resolves: the flow calls createSessionPayload.
ResolveSetLocalDescription(i) ==
  /\ flows[i].pc = "setLocalDescription"
  /\ localDescription' = flows[i].local
  /\ \E f \in {AwaitPayload(flows[i], iceGatheringState, iceCandidates)} :
         /\ flows' = [flows EXCEPT ![i] = f]
         /\ messenger' = messenger \o NewlyShown(flows[i], f)
         /\ waiters' = IF f.pc = "waiting" THEN Append(waiters, i) ELSE waiters
  /\ UNCHANGED << codec, iceGatheringState, remoteDescription, remoteCandidates, gatherings,
                  iceCandidates, channelVars, formerChannels, lines, candidateEvents >>

\* setRemoteDescription resolves: joinSession calls addIceCandidates.
ResolveSetRemoteDescription(i) ==
  /\ flows[i].pc = "setRemoteDescription"
  /\ remoteDescription' = flows[i].calls[1].arg
  /\ \E f \in {addIceCandidates(flows[i])} :
         /\ flows' = [flows EXCEPT ![i] = f]
         /\ messenger' = messenger \o NewlyShown(flows[i], f)
  /\ UNCHANGED << codec, iceGatheringState, localDescription, remoteCandidates, gatherings,
                  iceCandidates, channelVars, formerChannels, waiters, lines,
                  candidateEvents >>

\* The engine rejects createOffer, createAnswer, setLocalDescription or
\* setRemoteDescription: the await throws and nothing catches it.
RejectCall(i) ==
  /\ flows[i].pc \in {"createOffer", "createAnswer", "setLocalDescription",
                      "setRemoteDescription"}
  /\ flows' = [flows EXCEPT ![i] = CallRejected(@)]
  /\ UNCHANGED << codec, peerVars, iceCandidates, channelVars, formerChannels, messenger,
                  waiters, lines, candidateEvents >>

\* One addIceCandidate promise resolves; when it was the last one pending,
\* Promise.all resolves and joinSession goes on.
ResolveAddIceCandidate(i, k) ==
  /\ k \in flows[i].pending
  /\ remoteCandidates' = remoteCandidates \cup {flows[i].candidates.xs[k]}
  /\ LET applied == [flows[i] EXCEPT !.pending = @ \ {k}]
         f == IF applied.pc = "addIceCandidate" /\ applied.pending = {}
              THEN AfterCandidates(applied) ELSE applied
     IN  /\ flows' = [flows EXCEPT ![i] = f]
         /\ messenger' = messenger \o NewlyShown(flows[i], f)
  /\ UNCHANGED << codec, iceGatheringState, localDescription, remoteDescription, gatherings,
                  iceCandidates, channelVars, formerChannels, waiters, lines,
                  candidateEvents >>

\* One addIceCandidate promise rejects: Promise.all rejects at the first
\* one, the other calls stay issued.
RejectAddIceCandidate(i, k) ==
  /\ k \in flows[i].pending
  /\ flows' = [flows EXCEPT ![i] = CandidateRejected(@, k)]
  /\ UNCHANGED << codec, peerVars, iceCandidates, channelVars, formerChannels, messenger,
                  waiters, lines, candidateEvents >>

\* An icegatheringstatechange event: every promise of waitFor resolves, in
\* subscription order, and every suspended flow evaluates its loop
\* condition again.
Resumed(state) ==
  [i \in DOMAIN flows |->
     IF \E k \in 1 .. Len(waiters) : waiters[k] = i
     THEN AwaitPayload(flows[i], state, iceCandidates)
     ELSE flows[i]]

IceGatheringStateChange(state) ==
  \E resumed \in {Resumed(state)} :
    LET StillWaiting(i) == resumed[i].pc = "waiting"
    IN
      /\ iceGatheringState' = state
      /\ flows' = resumed
      /\ waiters' = SelectSeq(waiters, StillWaiting)
      /\ messenger' = messenger \o
           Concat([k \in 1 .. Len(waiters) |->
                     NewlyShown(flows[waiters[k]], resumed[waiters[k]])])
      /\ UNCHANGED << codec, localDescription, remoteDescription, remoteCandidates,
                      iceCandidates, channelVars, formerChannels, lines,
                      candidateEvents >>

\* Gathering starts, or starts again (ICE restart), once there is a local
\* description.
GatheringStarts ==
  /\ iceGatheringState \in {"new", "complete"}
  /\ localDescription # Undefined
  /\ gatherings < MaxGatherings
  /\ gatherings' = gatherings + 1
  /\ IceGatheringStateChange("gathering")

GatheringCompletes ==
  /\ iceGatheringState = "gathering"
  /\ gatherings' = gatherings
  /\ IceGatheringStateChange("complete")

\* An icecandidate event: a candidate while gathering, the null candidate
\* once gathering is complete.
IceCandidateEvent(candidate) ==
  /\ Len(candidateEvents) < MaxCandidateEvents
  /\ IF candidate = JNull THEN iceGatheringState = "complete"
     ELSE iceGatheringState = "gathering"
  /\ candidateEvents' = Append(candidateEvents, candidate)
  /\ iceCandidates' = handleIceCandidate(iceCandidates, candidate)
  /\ UNCHANGED << codec, peerVars, channelVars, formerChannels, messenger, flows, waiters,
                  lines >>

\* A datachannel event: the remote peer's channel becomes the active one.
DataChannelEvent(channel) ==
  /\ dataChannel' = ActiveChannel(dataChannel, channel)
  /\ messageListeners' = handleDataChannel(messageListeners, channel)
  /\ formerChannels' = IF channel # dataChannel
                       THEN (formerChannels \cup {dataChannel}) \ {channel}
                       ELSE formerChannels
  /\ UNCHANGED << codec, peerVars, iceCandidates, messenger, sent, flows, waiters,
                  delivered, lines, candidateEvents >>

\* A message event on a channel: handleMessage runs if it is subscribed there.
MessageEvent(channel, data) ==
  /\ Len(delivered) < MaxMessages
  /\ delivered' = Append(delivered,
                         [channel |-> channel, data |-> data,
                          active |-> dataChannel,
                          former |-> channel \in formerChannels,
                          shown |-> channel \in messageListeners])
  /\ messenger' = IF channel \in messageListeners THEN Append(messenger, data)
                  ELSE messenger
  /\ UNCHANGED << codec, peerVars, iceCandidates, dataChannel, messageListeners,
                  formerChannels, sent, flows, waiters, lines, candidateEvents >>

\* The negotiation: the user's lines, the answers of the WebRTC engine,
\* candidate gathering.
Next ==
  \/ \E value \in SubmittedLines : SubmitLine(value)
  \/ \E i \in DOMAIN flows, sdp \in LocalSdps : ResolveCreateOffer(i, sdp)
  \/ \E i \in DOMAIN flows, sdp \in LocalSdps : ResolveCreateAnswer(i, sdp)
  \/ \E i \in DOMAIN flows : ResolveSetLocalDescription(i)
  \/ \E i \in DOMAIN flows : ResolveSetRemoteDescription(i)
  \/ \E i \in DOMAIN flows : RejectCall(i)
  \/ \E i \in DOMAIN flows : \E k \in flows[i].pending : ResolveAddIceCandidate(i, k)
  \/ \E i \in DOMAIN flows : \E k \in flows[i].pending : RejectAddIceCandidate(i, k)
  \/ GatheringStarts
  \/ GatheringCompletes
  \/ \E candidate \in LocalCandidates \cup {JNull} : IceCandidateEvent(candidate)

Spec == Init /\ [][Next]_vars

\* The chat: the user's lines, the channels the remote peer opens and the
\* messages that arrive, while the engine leaves every call pending.
NextChat ==
  \/ \E value \in SubmittedLines : SubmitLine(value)
  \/ \E channel \in RemoteChannels : DataChannelEvent(channel)
  \/ \E channel \in Channels, data \in MessageData : MessageEvent(channel, data)

SpecChat == Init /\ [][NextChat]_vars

\* The negotiation when the engine settles every call it is given and
\* gathering, once it can start, starts and completes.
EngineSettles ==
  \/ \E i \in DOMAIN flows, sdp \in LocalSdps : ResolveCreateOffer(i, sdp)
  \/ \E i \in DOMAIN flows, sdp \in LocalSdps : ResolveCreateAnswer(i, sdp)
  \/ \E i \in DOMAIN flows : ResolveSetLocalDescription(i)
  \/ \E i \in DOMAIN flows : ResolveSetRemoteDescription(i)
  \/ \E i \in DOMAIN flows : RejectCall(i)
  \/ \E i \in DOMAIN flows : \E k \in flows[i].pending : ResolveAddIceCandidate(i, k)
  \/ \E i \in DOMAIN flows : \E k \in flows[i].pending : RejectAddIceCandidate(i, k)

SpecFair ==
  /\ Init
  /\ [][Next]_vars
  /\ WF_vars(EngineSettles)
  /\ WF_vars(GatheringStarts)
  /\ WF_vars(GatheringCompletes)

(***************************************************************************)
(* The payload functions on their own: a session description and a         *)
(* candidate sequence are chosen, createSessionPayload encodes them and    *)
(* parseSessionPayload decodes the result.                                 *)
(***************************************************************************)
MaxSdpLen == 2
MaxPayloadCandidates == 2

SdpAlphabet == {"a", " ", "\"", "\\", "\n", "U+233", "U+8364"}

InitCodec ==
  /\ Constructed
  /\ \E type \in {STR_offer, STR_answer}, sdp \in StringsUpTo(SdpAlphabet, MaxSdpLen),
        candidates \in SequencesUpTo(LocalCandidates, MaxPayloadCandidates) :
        codec = [session |-> SessionDescription(type, sdp), candidates |-> candidates,
                 step |-> "chosen", payload |-> NoResult, parsed |-> Undefined]

Encode ==
  /\ codec.step = "chosen"
  /\ codec' = [codec EXCEPT
                 !.step = "encoded",
                 !.payload = createSessionPayload(codec.session, codec.candidates)]
  /\ UNCHANGED << peerVars, iceCandidates, channelVars, formerChannels, messenger,
                  flows, waiters, lines, candidateEvents >>

Decode ==
  /\ codec.step = "encoded"
  /\ codec.payload.ok
  /\ \E parsed \in {parseSessionPayload(codec.payload.v)} :
       codec' = [codec EXCEPT !.step = IF parsed.ok THEN "decoded" ELSE "failed",
                              !.parsed = parsed.v]
  /\ UNCHANGED << peerVars, iceCandidates, channelVars, formerChannels, messenger,
                  flows, waiters, lines, candidateEvents >>

NextCodec == Encode \/ Decode

SpecCodec == InitCodec /\ [][NextCodec]_vars

(***************************************************************************)
(* The properties.                                                         *)
(***************************************************************************)
\* The flow has displayed a payload under its label.
ShowsPayload(f) ==
  \E k \in DOMAIN f.shown :
    StartsWith(f.shown[k], IF f.kind = "host" THEN MSG_Offer ELSE MSG_Answer)

\* The step takes flow i out of createSessionPayload: the payload is built
\* (and displayed) or btoa throws.
Packages(i) ==
  /\ flows[i].pc \in {"setLocalDescription", "waiting"}
  /\ \/ flows'[i].pc = "done"
     \/ flows'[i].pc = "rejected" /\ flows'[i].error = "InvalidCharacterError"

\* C1. Gathering gate: whenever a flow, of hostSession or of the offer
\* branch of joinSession, builds its payload, iceGatheringState is
\* "complete" at that moment; no payload is built while the state is "new"
\* or "gathering", and a displayed payload was built in state "complete".
GatheringGate ==
  [][ \A i \in DOMAIN flows :
        /\ Packages(i) =>
             /\ iceGatheringState' = "complete"
             /\ flows'[i].packState = "complete"
        /\ ShowsPayload(flows'[i]) => flows'[i].packState = "complete"
        /\ flows'[i].packState \notin {"new", "gathering"} ]_vars

\* A flow that had to wait for gathering and then displayed its payload.
GatheringGateWitness ==
  \E i \in DOMAIN flows :
    /\ flows[i].pc = "done"
    /\ flows[i].waits >= 1
    /\ ShowsPayload(flows[i])
    /\ flows[i].packState = "complete"

\* The payload chosen was encoded and decoded back to itself.
RoundTrips ==
  /\ codec.step = "encoded" => codec.payload.ok
  /\ codec.step \in {"decoded", "failed"} =>
       /\ codec.step = "decoded"
       /\ codec.parsed = SessionPayload(codec.session, codec.candidates)

\* C2. Payload round trip: for every session description (type offer or
\* answer, any sdp string) and every candidate sequence,
\* createSessionPayload builds a string and parseSessionPayload of that
\* string yields the same session and the same candidates in the same
\* order.
PayloadRoundTrip == codec.step # "chosen" => RoundTrips

\* The sdp strings btoa accepts: every code unit is at most 255.
IsLatin1(str) == \A k \in DOMAIN str : CharCode(str[k]) <= 255

\* The round trip holds for the session descriptions btoa accepts.
PayloadRoundTripLatin1 ==
  (codec.step # "chosen" /\ IsLatin1(Get(codec.session, STR_sdp).s)) => RoundTrips

\* A payload with quotes, backslashes or line ends in its sdp, and with
\* candidates, has come back from decoding.
PayloadRoundTripLatin1Witness ==
  /\ codec.step = "decoded"
  /\ Len(codec.candidates) = MaxPayloadCandidates
  /\ \E k \in DOMAIN Get(codec.session, STR_sdp).s :
       Get(codec.session, STR_sdp).s[k] \in {"\"", "\\", "\n", "U+233"}

\* The flow is a join of a payload whose session has this type.
JoinsType(f, type) ==
  f.kind = "join" /\ f.session.t = "object" /\ Get(f.session, STR_type) = JStr(type)

\* setRemoteDescription and every addIceCandidate of the flow have resolved.
RemoteApplied(f) ==
  /\ f.error = "none"
  /\ f.pc \notin {"start", "setRemoteDescription"}
  /\ f.pending = {}

\* C3. Answer branch: a join of a payload whose session type is "answer"
\* displays the completion message once the remote description and all
\* candidates have applied, and never calls createAnswer, never calls
\* setLocalDescription and never displays an "Answer:" payload.
AnswerBranch ==
  \A i \in DOMAIN flows :
    JoinsType(flows[i], STR_answer) =>
      /\ \A k \in DOMAIN flows[i].calls :
           flows[i].calls[k].op \notin {"createAnswer", "setLocalDescription"}
      /\ \A k \in DOMAIN flows[i].shown : ~StartsWith(flows[i].shown[k], MSG_Answer)
      /\ \A k \in DOMAIN messenger : ~StartsWith(messenger[k], MSG_Answer)
           \/ \E j \in DOMAIN flows : j # i /\ ShowsPayload(flows[j])
      /\ RemoteApplied(flows[i]) =>
           /\ flows[i].pc = "done"
           /\ flows[i].shown[Len(flows[i].shown)] = MSG_Finished
           /\ \E k \in DOMAIN messenger : messenger[k] = MSG_Finished

\* The join of the remote answer has applied the description and both
\* candidates and has returned.
AnswerBranchWitness ==
  \E i \in DOMAIN flows :
    /\ JoinsType(flows[i], STR_answer)
    /\ RemoteApplied(flows[i])
    /\ flows[i].pc = "done"
    /\ Cardinality(remoteCandidates) = 2
    /\ remoteDescription # Undefined

\* parseSessionPayload of every payload createSessionPayload can build.
DecodedPayloads ==
  Tabulated([payload \in { SessionPayloads[p].v :
                             p \in { q \in DOMAIN SessionPayloads : SessionPayloads[q].ok } } |->
               parseSessionPayload(payload)])

\* The flow has created an answer, set it as the local description and
\* displayed, last, an "Answer:" payload that decodes to that answer.
Answered(f) ==
  /\ f.pc = "done"
  /\ f.local.t = "object" /\ Get(f.local, STR_type) = JStr(STR_answer)
  /\ \E k \in DOMAIN f.calls :
       /\ f.calls[k] = Call("createAnswer", IceRestart)
       /\ k < Len(f.calls)
       /\ f.calls[k + 1] = Call("setLocalDescription", f.local)
  /\ f.shown # <<>>
  /\ StartsWith(f.shown[Len(f.shown)], MSG_Answer)
  /\ \E payload \in {SubSeq(f.shown[Len(f.shown)], Len(MSG_Answer) + 1,
                             Len(f.shown[Len(f.shown)]))} :
       /\ payload \in DOMAIN DecodedPayloads
       /\ DecodedPayloads[payload].ok
       /\ Get(DecodedPayloads[payload].v, STR_session) = f.local

\* The flow has thrown: the engine rejected one of its calls, or btoa
\* could not encode the answer.
Failed(f) ==
  /\ f.pc = "rejected"
  /\ f.error \in {"OperationError", "InvalidCharacterError"}
  /\ ~ShowsPayload(f)

FirstSpace(value) ==
  IF \E k \in DOMAIN value : value[k] = " "
  THEN CHOOSE k \in DOMAIN value :
         value[k] = " " /\ \A j \in 1 .. k - 1 : value[j] # " "
  ELSE Len(value) + 1

IsCommandLine(value) == value # <<>> /\ value[1] = "/"

TokenOf(value) == SubSeq(value, 2, FirstSpace(value) - 1)

RemainderOf(value) == SubSeq(value, FirstSpace(value) + 1, Len(value))

\* The flows line n has started.
FlowsOf(n) == { i \in DOMAIN flows : flows[i].line = n }

\* C5. Command routing: a submitted line whose command token is "host"
\* invokes hostSession with no argument, a line "/join <rest>" invokes
\* joinSession with exactly the remainder of the line after the command
\* token, spaces inside it preserved, and neither line is sent over the
\* data channel.
CommandRouting ==
  \A n \in DOMAIN lines :
    (IsCommandLine(lines[n]) /\ TokenOf(lines[n]) \in {STR_host, STR_join}) =>
      /\ Cardinality(FlowsOf(n)) = 1
      /\ \A i \in FlowsOf(n) :
           IF TokenOf(lines[n]) = STR_host
           THEN flows[i].kind = "host" /\ flows[i].response = <<>>
                /\ flows[i].calls[1] = Call("createOffer", IceRestart)
           ELSE flows[i].kind = "join" /\ flows[i].response = RemainderOf(lines[n])
      /\ \A k \in DOMAIN sent : sent[k].line # n

\* "/host" has started hostSession and "/join !  x" has started joinSession
\* with the argument "!  x".
CommandRoutingWitness ==
  /\ \E i \in DOMAIN flows : flows[i].kind = "host"
  /\ \E i \in DOMAIN flows :
       /\ flows[i].kind = "join"
       /\ flows[i].response = << "!", " ", " ", "x" >>
       /\ lines[flows[i].line] = << "/", "j", "o", "i", "n", " ", "!", " ", " ", "x" >>

\* The step submits a line, the last of lines afterwards.
Submits == Len(lines') = Len(lines) + 1

\* C6. Unknown command: a submitted line starting with the command marker
\* whose token is neither "host" nor "join" appends the line
\* "Invalid Command: <token>" to the display, starts no negotiation flow,
\* makes no peer-connection call and sends nothing over the data channel.
UnknownCommand ==
  [][ (/\ Submits
       /\ IsCommandLine(lines'[Len(lines')])
       /\ TokenOf(lines'[Len(lines')]) \notin {STR_host, STR_join}) =>
        /\ messenger' = Append(messenger, MSG_InvalidCommand \o TokenOf(lines'[Len(lines')]))
        /\ flows' = flows
        /\ sent' = sent
        /\ UNCHANGED peerVars ]_vars

\* "/bogus" was submitted and its notice is on the display.
UnknownCommandWitness ==
  /\ \E n \in DOMAIN lines : lines[n] = << "/", "b", "o", "g", "u", "s" >>
  /\ \E k \in DOMAIN messenger :
       messenger[k] = MSG_InvalidCommand \o << "b", "o", "g", "u", "s" >>
  /\ flows = <<>> /\ sent = <<>>

\* C7. Chat routing: a non-empty submitted line that does not begin with
\* the command marker is sent verbatim, exactly once, over the data channel
\* active at that moment, and triggers no negotiation operation and no
\* display line on the sender.
ChatRouting ==
  [][ (/\ Submits
       /\ lines'[Len(lines')] # <<>>
       /\ ~IsCommandLine(lines'[Len(lines')])) =>
        /\ sent' = Append(sent, [line |-> Len(lines'), channel |-> dataChannel,
                                 data |-> lines'[Len(lines')]])
        /\ messenger' = messenger
        /\ flows' = flows
        /\ UNCHANGED peerVars ]_vars

\* "hello" has gone out on a channel the remote peer opened.
ChatRoutingWitness ==
  \E k \in DOMAIN sent :
    /\ sent[k].data = << "h", "e", "l", "l", "o" >>
    /\ sent[k].channel \in RemoteChannels
    /\ lines[sent[k].line] = sent[k].data

\* C8 as stated. Channel handover (incoming): the subscription moves from
\* the active channel A to the channel B a datachannel event delivers, so
\* that afterwards a message event on B is displayed and a message event on
\* A is not displayed.
HandoverMoves ==
  \A k \in DOMAIN delivered :
    /\ delivered[k].channel = delivered[k].active => delivered[k].shown
    /\ delivered[k].former => ~delivered[k].shown

\* C8. Channel handover (incoming): a datachannel event delivering channel B
\* makes B the active channel and subscribes handleMessage to it, and the
\* subscription to the former channel A stays: afterwards a message event
\* on B is displayed and a message event on A is displayed as well.
HandoverAdds ==
  /\ messageListeners = {"messages"} \cup formerChannels \cup {dataChannel}
  /\ \A k \in DOMAIN delivered :
       (delivered[k].channel = delivered[k].active \/ delivered[k].former) =>
         /\ delivered[k].shown
         /\ \E j \in DOMAIN messenger : messenger[j] = delivered[k].data

\* After a handover a message has arrived on the former channel and is on
\* the display.
HandoverAddsWitness ==
  \E k \in DOMAIN delivered :
    /\ delivered[k].former
    /\ delivered[k].channel # delivered[k].active
    /\ delivered[k].shown
    /\ messenger # <<>> /\ messenger[Len(messenger)] = delivered[k].data

\* C9. Decode error reporting: a join of a payload that is not valid
\* base64 or not JSON surfaces the failure as a visible message on the
\* display.
DecodeErrorShown ==
  \A i \in DOMAIN flows :
    (/\ flows[i].kind = "join"
     /\ flows[i].calls = <<>>
     /\ flows[i].error \in {"InvalidCharacterError", "SyntaxError"}) =>
      /\ flows[i].shown # <<>>
      /\ messenger # <<>>

\* C10. No-argument join: command dispatch never invokes joinSession with
\* an empty payload; the line "/join" does not reach the decode step of
\* the join flow with the empty string.
JoinHasArgument ==
  \A i \in DOMAIN flows : flows[i].kind = "join" => flows[i].response # <<>>

\* The flow has made a call of this operation.
Calls(f, op) == \E k \in DOMAIN f.calls : f.calls[k].op = op

\* The flow has displayed this line.
Shows(f, line) == \E k \in DOMAIN f.shown : f.shown[k] = line

\* C11. ICE application failure: when applying one candidate of a joined
\* payload fails, the join fails as a whole: it displays neither the
\* completion message nor an "Answer:" payload and calls neither
\* createAnswer nor setLocalDescription; the candidates already applied
\* remain applied and the remote description stays set.
IceApplicationFailure ==
  [][ /\ remoteCandidates \subseteq remoteCandidates'
      /\ \A i \in DOMAIN flows :
           flows'[i].failed # {} =>
             /\ flows'[i].pc = "rejected"
             /\ ~Shows(flows'[i], MSG_Finished)
             /\ ~ShowsPayload(flows'[i])
             /\ ~Calls(flows'[i], "createAnswer")
             /\ ~Calls(flows'[i], "setLocalDescription")
             /\ remoteDescription' # Undefined
             /\ flows'[i].failed # flows[i].failed =>
                  /\ remoteCandidates' = remoteCandidates
                  /\ remoteDescription' = remoteDescription
                  /\ messenger' = messenger ]_vars

\* One candidate of the remote answer was applied and the other failed.
IceApplicationFailureWitness ==
  \E i \in DOMAIN flows :
    /\ flows[i].kind = "join"
    /\ flows[i].failed # {}
    /\ flows[i].pending = {}
    /\ \E k \in DOMAIN flows[i].candidates.xs :
         k \notin flows[i].failed /\ flows[i].candidates.xs[k] \in remoteCandidates

\* The positions in the calls of the flow of the calls of this operation.
CallsAt(f, op) == { k \in DOMAIN f.calls : f.calls[k].op = op }

\* The flow has branched on the session type.
Branched(f) == Shows(f, MSG_Finished) \/ Calls(f, "createAnswer")

\* C12. Join step ordering: within one join, setRemoteDescription has
\* completed before any addIceCandidate call is issued, and every
\* addIceCandidate call of the payload has completed before the flow
\* branches on the session type, that is before the completion message is
\* displayed or createAnswer is called.
JoinStepOrdering ==
  \A i \in DOMAIN flows :
    flows[i].kind = "join" =>
      /\ Calls(flows[i], "addIceCandidate") =>
           /\ flows[i].calls[1].op = "setRemoteDescription"
           /\ flows[i].pc # "setRemoteDescription"
           /\ remoteDescription # Undefined
           /\ CallsAt(flows[i], "addIceCandidate") = 2 .. Len(flows[i].candidates.xs) + 1
      /\ Branched(flows[i]) =>
           /\ flows[i].pending = {}
           /\ flows[i].failed = {}
           /\ \A k \in DOMAIN flows[i].candidates.xs :
                /\ flows[i].candidates.xs[k] \in remoteCandidates
                /\ flows[i].calls[k + 1] = Call("addIceCandidate", flows[i].candidates.xs[k])
           /\ \A k \in CallsAt(flows[i], "createAnswer") :
                k = Len(flows[i].candidates.xs) + 2

\* A join of the remote offer has applied the description and the
\* candidate and has called createAnswer.
JoinStepOrderingWitness ==
  \E i \in DOMAIN flows :
    /\ flows[i].kind = "join"
    /\ Calls(flows[i], "createAnswer")
    /\ Len(flows[i].candidates.xs) >= 1
    /\ flows[i].pending = {}

\* The candidate applications of one join settle in either order: the
\* second candidate of the remote answer is applied while the first is
\* pending.
AppliedOutOfOrder ==
  \E i \in DOMAIN flows :
    /\ flows[i].pc = "addIceCandidate"
    /\ flows[i].pending = {1}
    /\ Len(flows[i].candidates.xs) = 2
    /\ flows[i].candidates.xs[2] \in remoteCandidates

\* The step delivers an icegatheringstatechange event.
Notifies == iceGatheringState' # iceGatheringState

\* The flow is suspended in waitFor.
Suspended(i) == \E k \in DOMAIN waiters : waiters[k] = i

\* C13. waitForIceCandidates returns only when the state it observes is
\* "complete": it returns without suspending when the state is "complete"
\* already, and a flow suspended in it suspends again at every
\* icegatheringstatechange event that leaves the state at another value,
\* however many there are, and returns at the one that makes it "complete".
WaitsForComplete ==
  [][ \A i \in DOMAIN flows :
        /\ (flows[i].pc = "setLocalDescription" /\ flows'[i].pc # "setLocalDescription"
             /\ flows'[i].error # "OperationError") =>
              IF iceGatheringState = "complete"
              THEN flows'[i].pc \in {"done", "rejected"} /\ flows'[i].waits = 0
              ELSE flows'[i].pc = "waiting" /\ flows'[i].waits = 1
        /\ flows[i].pc = "waiting" =>
              /\ Suspended(i)
              /\ IF ~Notifies THEN flows'[i] = flows[i]
                 ELSE IF iceGatheringState' = "complete"
                 THEN /\ flows'[i].pc \in {"done", "rejected"}
                      /\ flows'[i].waits = flows[i].waits
                      /\ flows'[i].packState = "complete"
                 ELSE /\ flows'[i].pc = "waiting"
                      /\ flows'[i].waits = flows[i].waits + 1
                      /\ flows'[i].shown = flows[i].shown ]_vars

\* A flow that suspended while the state was "new", suspended again when
\* gathering started and returned when it completed; and a flow that found
\* the state "complete" and never suspended.
WaitsForCompleteWitness ==
  /\ \E i \in DOMAIN flows : flows[i].waits >= 2 /\ flows[i].pc = "done"
  /\ \E i \in DOMAIN flows :
       flows[i].waits = 0 /\ flows[i].pc = "done" /\ flows[i].packState = "complete"

\* The payload the line displays after its label, decoded.
Displayed(line, label) ==
  With(SubSeq(line, Len(label) + 1, Len(line)),
       LAMBDA payload :
         IF payload \in DOMAIN DecodedPayloads THEN DecodedPayloads[payload]
         ELSE [ok |-> FALSE, v |-> Undefined, error |-> "none"])

\* hostSession calls createOffer, then setLocalDescription with the offer
\* createOffer gave, and displays nothing but, once, an "Offer:" payload of
\* that offer; while it is suspended it has displayed nothing.
HostSequencing ==
  \A i \in DOMAIN flows :
    flows[i].kind = "host" =>
      /\ flows[i].calls[1] = Call("createOffer", IceRestart)
      /\ Len(flows[i].calls) <= 2
      /\ Len(flows[i].calls) = 2 =>
           /\ flows[i].calls[2] = Call("setLocalDescription", flows[i].local)
           /\ Get(flows[i].local, STR_type) = JStr(STR_offer)
      /\ flows[i].pc \in {"setLocalDescription", "waiting", "done"} =>
           Len(flows[i].calls) = 2
      /\ IF flows[i].pc = "done"
         THEN /\ Len(flows[i].shown) = 1
              /\ StartsWith(flows[i].shown[1], MSG_Offer)
              /\ Displayed(flows[i].shown[1], MSG_Offer).ok
              /\ Get(Displayed(flows[i].shown[1], MSG_Offer).v, STR_session) = flows[i].local
              /\ flows[i].packState = "complete"
         ELSE flows[i].shown = <<>>

\* A host flow whose createOffer and setLocalDescription have resolved and
\* which has been run in the state "complete" has displayed its payload.
HostCompletion ==
  \A i \in DOMAIN flows :
    (flows[i].kind = "host" /\ Len(flows[i].calls) = 2
     /\ flows[i].packState = "complete") =>
      flows[i].pc = "done" /\ ShowsPayload(flows[i])

\* C14. hostSession sequencing and completion: hostSession calls
\* createOffer, then setLocalDescription with that offer, then waits for
\* gathering, then displays exactly one "Offer:" payload of that offer;
\* when createOffer and setLocalDescription have resolved and the state has
\* reached "complete" with its event delivered, the payload is displayed,
\* and as long as it has not the flow is suspended and displays nothing.
HostSession == HostSequencing /\ HostCompletion

\* A host flow displays its payload whenever btoa can encode the offer.
HostCompletionLatin1 ==
  \A i \in DOMAIN flows :
    (flows[i].kind = "host" /\ Len(flows[i].calls) = 2
     /\ flows[i].packState = "complete"
     /\ IsLatin1(Get(flows[i].local, STR_sdp).s)) =>
      flows[i].pc = "done" /\ ShowsPayload(flows[i])

\* When the engine settles every call and gathering completes, a host flow
\* ends: with its payload displayed, or thrown because the engine rejected
\* a call or btoa could not encode the offer.
HostEventuallyEnds ==
  \A i \in 1 .. MaxLines :
    (i \in DOMAIN flows /\ flows[i].kind = "host")
      ~> (i \in DOMAIN flows
          /\ \/ flows[i].pc = "done" /\ ShowsPayload(flows[i])
             \/ flows[i].pc = "rejected" /\ flows[i].error = "OperationError"
             \/ /\ flows[i].pc = "rejected" /\ flows[i].error = "InvalidCharacterError"
                /\ ~IsLatin1(Get(flows[i].local, STR_sdp).s))

IsNotNull(candidate) == candidate # JNull

\* C15. The candidate buffer is append-only: it is empty at construction,
\* an icecandidate event with a candidate appends exactly that candidate at
\* the end, an event with the null candidate leaves the buffer unchanged,
\* and no other step changes it, so that the earlier buffer is always a
\* prefix of the later one.
BufferAppendOnly ==
  /\ iceCandidates = <<>>
  /\ [][ /\ iceCandidates' =
               IF candidateEvents' = candidateEvents THEN iceCandidates
               ELSE IF candidateEvents'[Len(candidateEvents')] = JNull THEN iceCandidates
               ELSE Append(iceCandidates, candidateEvents'[Len(candidateEvents')])
         /\ Len(iceCandidates) <= Len(iceCandidates')
         /\ SubSeq(iceCandidates', 1, Len(iceCandidates)) = iceCandidates
         /\ iceCandidates' = SelectSeq(candidateEvents', IsNotNull) ]_vars

\* A candidate is buffered, the null candidate has been delivered after
\* it, and a flow has built its payload since.
BufferAppendOnlyWitness ==
  /\ Len(iceCandidates) = 1
  /\ Len(candidateEvents) = 2
  /\ candidateEvents[2] = JNull
  /\ \E i \in DOMAIN flows : flows[i].pc = "done" /\ flows[i].snapshot = iceCandidates

\* The candidates of the payload the flow has displayed last.
DisplayedCandidates(f) ==
  Get(Displayed(f.shown[Len(f.shown)],
                IF f.kind = "host" THEN MSG_Offer ELSE MSG_Answer).v,
      STR_iceCandidates)

\* C16. A payload carries the whole buffer as one snapshot: the
\* iceCandidates of every displayed payload are the entire candidate buffer
\* as it stands at the moment of packaging, in buffer order, with the
\* candidates of earlier rounds and those discovered while the flow was
\* suspended; no payload holds a partial copy of the buffer.
PayloadSnapshot ==
  [][ \A i \in DOMAIN flows :
        /\ (Packages(i) /\ flows'[i].pc = "done") =>
             /\ iceCandidates' = iceCandidates
             /\ DisplayedCandidates(flows'[i]) = JArr(iceCandidates)
             /\ flows'[i].snapshot = iceCandidates
        /\ (flows[i].pc = "done" /\ ShowsPayload(flows[i])) =>
             /\ flows'[i] = flows[i]
             /\ DisplayedCandidates(flows[i]) = JArr(flows[i].snapshot)
             /\ Len(flows[i].snapshot) <= Len(iceCandidates)
             /\ SubSeq(iceCandidates, 1, Len(flows[i].snapshot)) = flows[i].snapshot ]_vars

\* A flow was suspended while a candidate was discovered and displayed it,
\* and a flow of a later round displayed that candidate and a newer one.
PayloadSnapshotWitness ==
  \E i, j \in DOMAIN flows :
    /\ flows[i].pc = "done" /\ flows[j].pc = "done"
    /\ flows[i].waits >= 1
    /\ Len(flows[i].snapshot) = 1
    /\ Len(flows[j].snapshot) = 2
    /\ DisplayedCandidates(flows[j]) = JArr(iceCandidates)

\* The engine has rejected createOffer, createAnswer, setLocalDescription
\* or setRemoteDescription of the flow.
NegotiationFailed(f) ==
  f.pc = "rejected" /\ f.error = "OperationError" /\ f.failed = {}

\* The flow awaits one of those calls.
AwaitsCall(f) ==
  f.pc \in {"createOffer", "createAnswer", "setLocalDescription", "setRemoteDescription"}

\* C17. Negotiation errors are not caught or retried: when createOffer,
\* createAnswer, setLocalDescription or setRemoteDescription is rejected,
\* the flow ends at once: it issues no further peer-connection call,
\* displays no payload and no completion message and does not issue the
\* failed call again; a later /host or /join starts a fresh flow.
NoRetry ==
  [][ \A i \in DOMAIN flows :
        /\ (AwaitsCall(flows[i]) /\ flows'[i].calls # flows[i].calls) =>
             /\ flows'[i].error = "none"
             /\ flows'[i].calls[Len(flows'[i].calls)] # flows[i].calls[Len(flows[i].calls)]
        /\ (AwaitsCall(flows[i]) /\ flows'[i].error = "OperationError") =>
             /\ NegotiationFailed(flows'[i])
             /\ flows'[i].calls = flows[i].calls
             /\ flows'[i].shown = flows[i].shown
             /\ messenger' = messenger
             /\ UNCHANGED peerVars
        /\ NegotiationFailed(flows[i]) =>
             /\ flows'[i] = flows[i]
             /\ ~ShowsPayload(flows[i])
             /\ ~Shows(flows[i], MSG_Finished)
             /\ \A k, j \in DOMAIN flows[i].calls :
                  flows[i].calls[k] = flows[i].calls[j] => k = j
             /\ (Submits /\ IsCommandLine(lines'[Len(lines')])
                 /\ TokenOf(lines'[Len(lines')]) = STR_host) =>
                  /\ Len(flows') = Len(flows) + 1
                  /\ flows'[Len(flows')].pc = "createOffer"
                  /\ flows'[Len(flows')].calls = << Call("createOffer", IceRestart) >>
                  /\ flows'[Len(flows')].error = "none" ]_vars

\* createOffer of a first /host was rejected and a second /host has
\* displayed its offer.
NoRetryWitness ==
  \E i, j \in DOMAIN flows :
    /\ i < j
    /\ NegotiationFailed(flows[i])
    /\ flows[i].kind = "host"
    /\ flows[j].kind = "host" /\ flows[j].pc = "done"

\* C18. Channel handover (outgoing): after a datachannel event delivering
\* channel B the active channel is B, every chat line submitted afterwards
\* is sent on B and never on a channel that was active before, and after
\* several events the active channel is the one delivered last.
HandoverOutgoing ==
  [][ /\ formerChannels' # formerChannels =>
           /\ dataChannel' \in RemoteChannels
           /\ dataChannel' # dataChannel
           /\ dataChannel \in formerChannels'
      /\ dataChannel' \notin formerChannels'
      /\ (Submits /\ sent' # sent) =>
           /\ sent'[Len(sent')].channel = dataChannel
           /\ sent'[Len(sent')].channel \notin formerChannels
           /\ \A k \in DOMAIN sent : sent'[k] = sent[k] ]_vars

\* After two handovers a chat line has gone out on the channel delivered
\* last.
HandoverOutgoingWitness ==
  /\ Cardinality(formerChannels) = 2
  /\ \E k \in DOMAIN sent :
       /\ sent[k].channel = dataChannel
       /\ sent[k].channel \in RemoteChannels
       /\ k = Len(sent)

\* Whether the remainder of each line the user may submit decodes.
LineDecodes ==
  Tabulated([value \in SubmittedLines |-> parseSessionPayload(RemainderOf(value)).ok])

\* C19. Decode happens before any effect: a join of a payload that fails to
\* decode stops before touching anything: it makes no setRemoteDescription,
\* addIceCandidate, createAnswer or setLocalDescription call, displays no
\* "joining:" line, and leaves the candidate buffer and the active channel
\* unchanged.
DecodeBeforeEffect ==
  [][ /\ (/\ Submits
          /\ IsCommandLine(lines'[Len(lines')])
          /\ TokenOf(lines'[Len(lines')]) = STR_join
          /\ ~LineDecodes[lines'[Len(lines')]]) =>
           /\ Len(flows') = Len(flows) + 1
           /\ flows'[Len(flows')].pc = "rejected"
           /\ flows'[Len(flows')].calls = <<>>
           /\ flows'[Len(flows')].shown = <<>>
           /\ \A i \in DOMAIN flows : flows'[i] = flows[i]
           /\ messenger' = messenger
           /\ iceCandidates' = iceCandidates
           /\ dataChannel' = dataChannel
           /\ messageListeners' = messageListeners
           /\ sent' = sent
           /\ UNCHANGED peerVars
      /\ \A i \in DOMAIN flows :
           (flows[i].kind = "join" /\ ~LineDecodes[lines[flows[i].line]]) =>
             flows'[i] = flows[i] /\ flows[i].calls = <<>> /\ flows[i].shown = <<>> ]_vars

\* With a candidate buffered, a join of a payload that does not decode has
\* ended.
DecodeBeforeEffectWitness ==
  \E i \in DOMAIN flows :
    /\ flows[i].kind = "join"
    /\ flows[i].response # <<>>
    /\ flows[i].error \in {"InvalidCharacterError", "SyntaxError"}
    /\ flows[i].calls = <<>>
    /\ iceCandidates # <<>>

\* The flow has displayed exactly one payload, and it is of its own local
\* description.
DisplaysOwnPayload(f) ==
  /\ f.pc = "done"
  /\ Cardinality({ k \in DOMAIN f.shown :
                      StartsWith(f.shown[k], IF f.kind = "host" THEN MSG_Offer
                                             ELSE MSG_Answer) }) = 1
  /\ Get(Displayed(f.shown[Len(f.shown)],
                   IF f.kind = "host" THEN MSG_Offer ELSE MSG_Answer).v,
         STR_session) = f.local

\* C20. Overlapping flows are all released: several flows can be suspended
\* in waitForIceCandidates at once; a change of the gathering state to
\* "complete" wakes every one of them, each then displays its own payload
\* exactly once, and none is left suspended.
OverlappingReleased ==
  \A i \in DOMAIN flows :
    /\ flows[i].pc = "waiting" => iceGatheringState # "complete"
    /\ (flows[i].waits >= 1 /\ flows[i].pc # "waiting") => DisplaysOwnPayload(flows[i])

\* Every flow a change to "complete" wakes leaves waitForIceCandidates in
\* that step, and displays its own payload once unless btoa throws.
OverlappingWoken ==
  [][ (Notifies /\ iceGatheringState' = "complete") =>
        /\ waiters' = <<>>
        /\ \A i \in DOMAIN flows :
             flows[i].pc = "waiting" =>
               \/ /\ DisplaysOwnPayload(flows'[i])
                  /\ \E k \in DOMAIN messenger' :
                       k > Len(messenger) /\ messenger'[k] = flows'[i].shown[Len(flows'[i].shown)]
               \/ /\ flows'[i].pc = "rejected"
                  /\ flows'[i].error = "InvalidCharacterError"
                  /\ ~IsLatin1(Get(flows'[i].local, STR_sdp).s) ]_vars

\* Two flows were suspended at once and both have displayed their payloads.
OverlappingWokenWitness ==
  /\ Len(flows) = 2
  /\ \A i \in DOMAIN flows : flows[i].waits >= 1 /\ DisplaysOwnPayload(flows[i])
  /\ flows[1].snapshot = flows[2].snapshot
  /\ gatherings = 1

====
